---- MODULE Spec2Model ----
(***************************************************************************)
(* State-machine model of the two optimisation engines of meta-heuristics: *)
(* FireflyAlg (src/src/firefly.rs) and PSO (src/src/pso.rs).               *)
(*                                                                         *)
(* Numbers.  The engines are generic over the caller's candidate type; the *)
(* model instantiates them with the scalar particle of the documentation   *)
(* (one f64 position, objective eval_func).  An f64 position x is held as  *)
(* the integer 2*x (a grid of halves), an f64 coefficient c (beta,         *)
(* absorption, inetia, c_local, c_global, a random draw) as the integer    *)
(* 2*c, and an evaluation e as the integer 16*e, which is exact for        *)
(* eval_func on the grid.  Every product Pos * f64 is rounded back to the  *)
(* grid (towards zero), one rounding per multiplication, in the order the  *)
(* code multiplies.                                                        *)
(***************************************************************************)
EXTENDS Integers, Sequences, FiniteSets

VARIABLES
    \* ---- FireflyAlg (firefly.rs:75-79)
    ff_status,      \* "none": not constructed; "ok": new() returned an engine
    fireflies,      \* Vec<(T, T::Eval)>: sequence of [pos, e]
    beta,
    absorption,
    ff_old,         \* history: self.fireflies as update() found it
    ff_updates,     \* history: number of update() calls so far
    \* ---- PSO (pso.rs:149-155)
    pso_status,     \* "none"; "ok"; "panicked": new() unwound, no engine
    ord,            \* the caller's Ord on T: "eval" or "reversed"
    particles,      \* Vec<T>: sequence of [pos, vel, best |-> [pos, e]]
    inetia,
    c_local,
    c_global,
    best,           \* (T, T::Eval): [p |-> particle, e |-> evaluation]
    pso_old,        \* history: self.particles as update() found it
    best_old,       \* history: self.best as update() found it
    calc,           \* history: what the last calc_best returned
    held,           \* history: per index, the positions held since new()
    ret,            \* history: what the last update() returned
    pso_updates     \* history: number of update() calls so far

ff_vars == <<ff_status, fireflies, beta, absorption, ff_old, ff_updates>>
pso_vars == <<pso_status, ord, particles, inetia, c_local, c_global, best,
              pso_old, best_old, calc, held, ret, pso_updates>>
vars == <<ff_vars, pso_vars>>

---------------------------------------------------------------------------
\* Bounds of the model.
MaxFireflies == 3       \* fireflies_num ranges over 0..MaxFireflies
MaxParticles == 2       \* particles_num ranges over 0..MaxParticles
MaxSpread == 2          \* new_random() draws within MaxSpread halves of 0.5
MaxCoef == 2            \* hyperparameters range over 0, 0.5, .., MaxCoef/2
MaxFFUpdates == 2       \* update() calls explored per Firefly engine
MaxPSOWork == 6         \* candidate-steps explored per PSO engine: update() calls times population size

---------------------------------------------------------------------------
\* Arithmetic of the candidate type.

\* 16 * (1.0 - ((x - 3.0) * x + 2.0) * x * x) at x = k/2.
eval_func(k) == 16 - ((k - 6) * k + 8) * k * k

\* Pos * f64: p halves times c halves, rounded towards zero to the grid.
Mul(p, c) ==
    IF p * c >= 0 THEN (p * c) \div 2 ELSE -((-(p * c)) \div 2)

Abs(x) == IF x < 0 THEN -x ELSE x

\* Firefly::distance of the documentation: (self.pos - rhs.pos).abs().
distance(p, q) == Abs(p - q)

\* (-dist * dist * absorption).exp(), in halves, to the nearest half:
\* with t = d*d*a/8, e^-t >= 0.75 iff d*d*a <= 2, e^-t >= 0.25 iff d*d*a <= 11.
ExpNeg(d, a) ==
    IF d * d * a <= 2 THEN 2
    ELSE IF d * d * a <= 11 THEN 1
    ELSE 0

\* The positions new_random() can return: 4.0 * x - 1.5 for x in [0, 1] is
\* centred on 0.5 (grid point 1); the model draws within MaxSpread of it.
NewRandomPos == (1 - MaxSpread)..(1 + MaxSpread)

Coefs == 0..MaxCoef

\* All sequences of length n over S.
SeqsOf(S, n) == [1..n -> S]

---------------------------------------------------------------------------
\* FireflyAlg.

\* let ff = T::new_random(); let e = ff.eval(); (ff, e)
NewFirefly(k) == [pos |-> k, e |-> eval_func(k)]

\* Faulty variant of Clone: the staging buffer starts from default candidates.
CloneZeroed(ff) == [i \in DOMAIN ff |-> NewFirefly(0)]
\* let mut new_fireflies = self.fireflies.clone();
Clone(ff) == ff

\* ff_i.0.pos() + (ff_j.0.pos() - ff_i.0.pos()) * beta * exp(-dist*dist*absorption)
Attract(pi, pj, b, a) ==
    pi + Mul(Mul(pj - pi, b), ExpNeg(distance(pi, pj), a))

\* Faulty variant of InnerBody: the cached evaluation is not recomputed.
InnerBodyStale(nf, ff, i, j, b, a) ==
    IF ff[j].e > ff[i].e
    THEN [nf EXCEPT ![i] = [pos |-> Attract(ff[i].pos, ff[j].pos, b, a),
                            e |-> nf[i].e]]
    ELSE nf
\* Faulty variant of InnerBody: the pull starts from the staged position, so
\* pulls accumulate.
InnerBodyAccumulate(nf, ff, i, j, b, a) ==
    IF ff[j].e > ff[i].e
    THEN LET new_pos == Attract(nf[i].pos, ff[j].pos, b, a)
         IN  [nf EXCEPT ![i] = [pos |-> new_pos, e |-> eval_func(new_pos)]]
    ELSE nf
\* The body of the inner loop: nf is new_fireflies, ff is self.fireflies.
InnerBody(nf, ff, i, j, b, a) ==
    IF ff[j].e > ff[i].e
    THEN LET new_pos == Attract(ff[i].pos, ff[j].pos, b, a)
         IN  [nf EXCEPT ![i] = [pos |-> new_pos, e |-> eval_func(new_pos)]]
    ELSE nf

\* for j in 0..fireflies_num { .. }, from index j on (indices are 1-based here)
RECURSIVE InnerLoop(_, _, _, _, _, _)
InnerLoop(nf, ff, i, j, b, a) ==
    IF j > Len(ff) THEN nf
    ELSE InnerLoop(InnerBody(nf, ff, i, j, b, a), ff, i, j + 1, b, a)

\* for i in 0..fireflies_num { .. }, from index i on
RECURSIVE OuterLoop(_, _, _, _, _)
OuterLoop(nf, ff, i, b, a) ==
    IF i > Len(ff) THEN nf
    ELSE OuterLoop(InnerLoop(nf, ff, i, 1, b, a), ff, i + 1, b, a)

\* FireflyAlg::new(fireflies_num, beta, absorption): any fireflies_num,
\* zero included, returns an engine.
FFNew(n, ps, b, a) ==
    /\ ff_status = "ok"
    /\ fireflies = [i \in 1..n |-> NewFirefly(ps[i])]
    /\ beta = b
    /\ absorption = a
    /\ ff_old = <<>>
    /\ ff_updates = 0

\* FireflyAlg::update(): the sweep into new_fireflies, then the swap.
FFUpdate ==
    /\ ff_status = "ok"
    /\ ff_updates < MaxFFUpdates
    /\ fireflies' = OuterLoop(Clone(fireflies), fireflies, 1, beta, absorption)
    /\ ff_old' = fireflies
    /\ ff_updates' = ff_updates + 1
    /\ UNCHANGED <<ff_status, beta, absorption>>
    /\ UNCHANGED pso_vars

\* No Firefly engine has been constructed.
FFNone ==
    /\ ff_status = "none"
    /\ fireflies = <<>>
    /\ beta = 0 /\ absorption = 0
    /\ ff_old = <<>>
    /\ ff_updates = 0

\* No PSO engine has been constructed.
PSONone ==
    /\ pso_status = "none"
    /\ ord = "eval"
    /\ particles = <<>>
    /\ inetia = 0 /\ c_local = 0 /\ c_global = 0
    /\ best = <<>>
    /\ pso_old = <<>> /\ best_old = <<>> /\ calc = <<>>
    /\ held = <<>>
    /\ ret = "none"
    /\ pso_updates = 0

FFInit ==
    /\ \E n \in 0..MaxFireflies : \E ps \in SeqsOf(NewRandomPos, n) :
       \E b \in Coefs : \E a \in Coefs : FFNew(n, ps, b, a)
    /\ PSONone

FFNext == FFUpdate

SpecFF == FFInit /\ [][FFNext]_vars

---------------------------------------------------------------------------
\* PSO.

\* Particle::new_random of the documentation: velocity Pos::default(),
\* personal best (pos, pos.eval()).
new_random(k) ==
    [pos |-> k, vel |-> 0, best |-> [pos |-> k, e |-> eval_func(k)]]

\* The caller's Ord::cmp(x, y) on candidates.  "eval" orders by the
\* evaluation of the current position; "reversed" is the impl Ord of the
\* documentation, which returns Greater when x evaluates lower.
Cmp(o, x, y) ==
    LET ex == eval_func(x.pos)
        ey == eval_func(y.pos)
    IN  IF ex = ey THEN "Equal"
        ELSE IF (ex > ey) = (o = "eval") THEN "Greater"
        ELSE "Less"

\* Faulty variant of IterMax: the first maximum wins.
RECURSIVE IterMaxFirst(_, _, _, _)
IterMaxFirst(ps, o, i, acc) ==
    IF i > Len(ps) THEN acc
    ELSE IterMaxFirst(ps, o, i + 1,
                      IF Cmp(o, acc, ps[i]) = "Less" THEN ps[i] ELSE acc)
\* Faulty variant of IterMax: min() for max().
RECURSIVE IterMin(_, _, _, _)
IterMin(ps, o, i, acc) ==
    IF i > Len(ps) THEN acc
    ELSE IterMin(ps, o, i + 1,
                 IF Cmp(o, acc, ps[i]) = "Less" THEN acc ELSE ps[i])
\* particles.iter().max(): a left-to-right reduction that keeps the
\* accumulator only when it compares Greater, so the last maximum wins.
RECURSIVE IterMax(_, _, _, _)
IterMax(ps, o, i, acc) ==
    IF i > Len(ps) THEN acc
    ELSE IterMax(ps, o, i + 1,
                 IF Cmp(o, acc, ps[i]) = "Greater" THEN acc ELSE ps[i])

\* PSO::calc_best on a non-empty slice: (*best, best.eval()).
calc_best(ps, o) ==
    LET b == IterMax(ps, o, 2, ps[1])
    IN  [p |-> b, e |-> eval_func(b.pos)]

\* The draws rand_01() is explored at: the two ends of Closed01, 0.0 and 1.0.
Draws == {0, 2}

\* for p in &mut self.particles { *p.pos_mut() = p.pos() + p.vel(); }
PositionPass(ps) ==
    [i \in DOMAIN ps |-> [ps[i] EXCEPT !.pos = ps[i].pos + ps[i].vel]]

\* The right-hand side of new_vel for candidate p; gb is self.best and r the
\* two rand_01() draws, in the order the expression makes them.
NewVel(p, gb, w, cl, cg, r) ==
    Mul(p.vel, w)
    + Mul(Mul(p.best.pos - p.pos, cl), r[1])
    + Mul(Mul(gb.p.pos - p.pos, cg), r[2])

\* for mut p in &mut self.particles { *p.vel_mut() = new_vel; }
VelocityPass(ps, gb, w, cl, cg, rs) ==
    [i \in DOMAIN ps |->
        [ps[i] EXCEPT !.vel = NewVel(ps[i], gb, w, cl, cg, rs[i])]]

\* Draw pairs that give candidate p the same velocity give the same next
\* state: one pair per distinct velocity is enumerated, the least one.
DrawRank(r) == 4 * r[1] + r[2]
DistinctDraws(p, gb, w, cl, cg) ==
    {r \in Draws \X Draws :
        \A q \in Draws \X Draws :
            NewVel(p, gb, w, cl, cg, q) = NewVel(p, gb, w, cl, cg, r)
                => DrawRank(r) <= DrawRank(q)}
RECURSIVE DrawSeqs(_, _, _, _, _, _)
DrawSeqs(ps, n, gb, w, cl, cg) ==
    IF n = 0 THEN {<<>>}
    ELSE {Append(s, r) : s \in DrawSeqs(ps, n - 1, gb, w, cl, cg),
                         r \in DistinctDraws(ps[n], gb, w, cl, cg)}

\* Faulty variant of BestPass: the personal best is always overwritten.
BestPassAlways(ps) ==
    [i \in DOMAIN ps |->
        [ps[i] EXCEPT !.best = [pos |-> ps[i].pos, e |-> eval_func(ps[i].pos)]]]
\* The personal-best loop.
BestPass(ps) ==
    [i \in DOMAIN ps |->
        LET e == eval_func(ps[i].pos)
        IN  IF e > ps[i].best.e
            THEN [ps[i] EXCEPT !.best = [pos |-> ps[i].pos, e |-> e]]
            ELSE ps[i]]

\* Faulty variant of Passes: the velocity loop runs before the position loop.
PassesVelocityFirst(ps, gb, w, cl, cg, rs) ==
    BestPass(PositionPass(VelocityPass(ps, gb, w, cl, cg, rs)))
\* The three loops of update(), in the order the code runs them.
Passes(ps, gb, w, cl, cg, rs) ==
    BestPass(VelocityPass(PositionPass(ps), gb, w, cl, cg, rs))

\* Faulty variants of Decide: always replace; replace on >=.
DecideAlways(b, cur) == [best |-> b, ret |-> FALSE]
DecideOrEqual(b, cur) ==
    IF b.e >= cur.e THEN [best |-> b, ret |-> FALSE]
    ELSE [best |-> cur, ret |-> TRUE]
\* The tail of update(): b is the recomputed best, cur is self.best.
\* Gives the new self.best and the returned flag.
Decide(b, cur) ==
    IF b.e > cur.e THEN [best |-> b, ret |-> FALSE]
    ELSE [best |-> cur, ret |-> TRUE]

\* PSO::new(particles_num, inetia, c_local, c_global).  With no particle,
\* calc_best unwraps None and new() panics: no engine is returned.
PSONew(n, o, ps, w, cl, cg) ==
    /\ ord = o
    /\ inetia = w /\ c_local = cl /\ c_global = cg
    /\ IF n = 0
       THEN /\ pso_status = "panicked"
            /\ particles = <<>>
            /\ best = <<>>
            /\ calc = <<>>
       ELSE /\ pso_status = "ok"
            /\ particles = [i \in 1..n |-> new_random(ps[i])]
            /\ best = calc_best(particles, o)
            /\ calc = best
    /\ held = [i \in 1..n |-> {ps[i]}]
    /\ pso_old = <<>> /\ best_old = <<>>
    /\ ret = "none"
    /\ pso_updates = 0

\* PSO::update().
PSOUpdate ==
    /\ pso_status = "ok"
    /\ pso_updates * Len(particles) < MaxPSOWork
    /\ \E p1 \in {PositionPass(particles)} :
       \E rs \in DrawSeqs(p1, Len(p1), best, inetia, c_local, c_global) :
       \E ps \in {Passes(particles, best, inetia, c_local, c_global, rs)} :
       \E b \in {calc_best(ps, ord)} :
       \E d \in {Decide(b, best)} :
            /\ particles' = ps
            /\ best' = d.best
            /\ ret' = d.ret
            /\ calc' = b
            /\ held' = [i \in DOMAIN ps |-> held[i] \cup {ps[i].pos}]
    /\ pso_old' = particles
    /\ best_old' = best
    /\ pso_updates' = pso_updates + 1
    /\ UNCHANGED <<pso_status, ord, inetia, c_local, c_global>>
    /\ UNCHANGED ff_vars

\* The (inetia, c_local, c_global) explored: all 1.0, or one of the three
\* at 0.0 or 0.5.
PSOHypers ==
    {h \in (0..2) \X (0..2) \X (0..2) :
        Cardinality({k \in 1..3 : h[k] # 2}) <= 1}

PSOInit ==
    /\ \E n \in 0..MaxParticles : \E ps \in SeqsOf(NewRandomPos, n) :
       \E o \in {"eval", "reversed"} :
       \E h \in PSOHypers : PSONew(n, o, ps, h[1], h[2], h[3])
    /\ FFNone

PSONext == PSOUpdate

SpecPSO == PSOInit /\ [][PSONext]_vars

---------------------------------------------------------------------------
\* Helpers of the properties.

SetMax(S) == CHOOSE x \in S : \A y \in S : y <= x

\* Indices of ff whose cached evaluation strictly exceeds that of i.
Brighter(ff, i) == {j \in DOMAIN ff : ff[j].e > ff[i].e}

\* The pull of the candidate at pj on the one at pi, as the claim writes it.
Pull(pi, pj) ==
    Mul(Mul(pj - pi, beta), ExpNeg(Abs(pi - pj), absorption))

---------------------------------------------------------------------------
\* Firefly properties (checked under SpecFF).

\* C3: constructing an engine with population_size == 0 fails fast: no
\* engine holding an empty population is ever returned, so update() never
\* runs on an empty population.
C3_EmptyPopulationRejected ==
    /\ ff_status = "ok" => Len(fireflies) >= 1
    /\ pso_status = "ok" => Len(particles) >= 1

\* C4: after an update(), every candidate i that had a strictly brighter
\* neighbour sits at pos(i) + pull of j*, the highest index among its
\* brighter neighbours, all taken from the population before the sweep.
C4_LastBrighterWins ==
    ff_updates > 0 =>
        \A i \in DOMAIN ff_old :
            Brighter(ff_old, i) # {} =>
                LET js == SetMax(Brighter(ff_old, i))
                IN  fireflies[i].pos
                        = ff_old[i].pos + Pull(ff_old[i].pos, ff_old[js].pos)

\* C4 witness: after an update(), some candidate had two brighter
\* neighbours whose pulls differ, and took the higher-index one's.
C4_Witness ==
    /\ ff_updates > 0
    /\ \E i \in DOMAIN ff_old : \E j1, j2 \in Brighter(ff_old, i) :
        /\ j1 < j2
        /\ j2 = SetMax(Brighter(ff_old, i))
        /\ Pull(ff_old[i].pos, ff_old[j1].pos) # Pull(ff_old[i].pos, ff_old[j2].pos)
        /\ Pull(ff_old[i].pos, ff_old[j1].pos) # 0
        /\ fireflies[i].pos # ff_old[i].pos

\* C7: every (candidate, evaluation) pair of fireflies() holds the
\* evaluation of the candidate's current position, and update() keeps the
\* population's length.
C7_CacheInvariant ==
    ff_status = "ok" =>
        /\ \A i \in DOMAIN fireflies :
            fireflies[i].e = eval_func(fireflies[i].pos)
        /\ ff_updates > 0 => Len(fireflies) = Len(ff_old)

\* C7 witness: an update() moved a candidate to a position that evaluates
\* differently.
C7_Witness ==
    /\ ff_updates > 0
    /\ \E i \in DOMAIN fireflies :
        /\ fireflies[i].pos # ff_old[i].pos
        /\ fireflies[i].e # ff_old[i].e

\* C8: with a population of one, update() leaves position and cached
\* evaluation as they were.
C8_SingleNoOp ==
    (ff_updates > 0 /\ Len(ff_old) = 1) => fireflies = ff_old

\* C8 witness: a one-candidate engine away from the origin, with a positive
\* beta, after the last update() explored.
C8_Witness ==
    /\ ff_updates = MaxFFUpdates
    /\ Len(fireflies) = 1
    /\ beta > 0
    /\ fireflies[1].pos # 0

---------------------------------------------------------------------------
\* PSO properties (checked under SpecPSO).

\* The highest evaluation among the current positions of ps.
MaxEval(ps) == SetMax({eval_func(ps[i].pos) : i \in DOMAIN ps})

\* C1: the evaluation of best() never decreases over an update(), and
\* best() is replaced only by a strictly greater evaluation.
C1_BestMonotone ==
    pso_updates > 0 =>
        /\ best.e >= best_old.e
        /\ best # best_old => best.e > best_old.e

\* C1 witness: after an update() the best of the population evaluates
\* below the cached global best, which was kept.
C1_Witness ==
    /\ pso_updates > 0
    /\ calc.e < best_old.e
    /\ best = best_old

\* C2: under an order consistent with evaluation, update() returns true
\* iff the highest evaluation of the population after the passes does not
\* strictly exceed the cached evaluation from before the step; true leaves
\* best() alone, false leaves the snapshot of a maximal candidate in it.
C2_StagnationSignal ==
    (pso_updates > 0 /\ ord = "eval") =>
        /\ (ret = TRUE) <=> ~(MaxEval(particles) > best_old.e)
        /\ ret = TRUE => best = best_old
        /\ ret = FALSE =>
            /\ best.e = MaxEval(particles)
            /\ \E i \in DOMAIN particles :
                best.p = particles[i] /\ best.e = eval_func(particles[i].pos)

\* C2 witness: the boundary case, a step that moved a candidate and ended
\* with the population's highest evaluation equal to the cached one.
C2_Witness ==
    /\ pso_updates > 0 /\ ord = "eval"
    /\ MaxEval(particles) = best_old.e
    /\ \E i \in DOMAIN particles : particles[i].pos # pso_old[i].pos
    /\ ret = TRUE

\* Indices of ps that no candidate of ps compares Greater than.
Maximal(ps, o) ==
    {i \in DOMAIN ps : \A j \in DOMAIN ps : Cmp(o, ps[j], ps[i]) # "Greater"}

\* C5: whenever the global best is selected from the population (in new()
\* and at the end of every update()), the candidate selected is the one of
\* highest index among those maximal under the candidate order.
C5_TieBreakLast ==
    pso_status = "ok" =>
        LET js == SetMax(Maximal(particles, ord))
        IN  calc = [p |-> particles[js], e |-> eval_func(particles[js].pos)]

\* C5 witness: an update() ended with two maximal candidates that differ,
\* and the later one was selected.
C5_Witness ==
    /\ pso_updates > 0
    /\ \E i, j \in Maximal(particles, ord) :
        /\ i < j
        /\ particles[i] # particles[j]
        /\ calc.p = particles[j]

\* C6: personal_best.1 is the highest evaluation over the positions the
\* candidate has held since new(), personal_best.0 is one of those
\* positions and evaluates to it, and an update() replaces personal_best
\* only by the new position, and only when that evaluates strictly higher.
C6_PersonalBest ==
    pso_status = "ok" =>
        \A i \in DOMAIN particles :
            /\ particles[i].best.e
                   = SetMax({eval_func(k) : k \in held[i]})
            /\ particles[i].best.pos \in held[i]
            /\ eval_func(particles[i].best.pos) = particles[i].best.e
            /\ pso_updates > 0 =>
                /\ particles[i].best.e >= pso_old[i].best.e
                /\ particles[i].best # pso_old[i].best =>
                    /\ particles[i].best.e > pso_old[i].best.e
                    /\ particles[i].best.pos = particles[i].pos

\* C6 witness: after an update() a candidate has held three positions and
\* its personal best is strictly above both the position it now holds and
\* the one it held before: the maximum comes from earlier in its history.
C6_Witness ==
    /\ pso_updates > 0
    /\ \E i \in DOMAIN particles :
        /\ Cardinality(held[i]) >= 3
        /\ eval_func(particles[i].pos) < particles[i].best.e
        /\ eval_func(pso_old[i].pos) < particles[i].best.e

\* C9: after an update(), each position is the old position plus the
\* velocity the previous step left; each velocity comes from the old
\* velocity, the position just updated, the personal best and the global
\* best as they stood before the step, for some pair of draws; and the
\* best recomputed at the end is a snapshot of a candidate after all three
\* passes.
C9_PassOrder ==
    pso_updates > 0 =>
        /\ \A i \in DOMAIN particles :
            /\ particles[i].pos = pso_old[i].pos + pso_old[i].vel
            /\ \E r1 \in Draws : \E r2 \in Draws :
                particles[i].vel =
                    Mul(pso_old[i].vel, inetia)
                    + Mul(Mul(pso_old[i].best.pos - particles[i].pos, c_local), r1)
                    + Mul(Mul(best_old.p.pos - particles[i].pos, c_global), r2)
        /\ \E i \in DOMAIN particles :
            calc = [p |-> particles[i], e |-> eval_func(particles[i].pos)]

\* C9 witness: an update() in which a candidate moved, changed velocity and
\* raised its personal best, and the global best was replaced: the values
\* before and after the step all differ.
C9_Witness ==
    /\ pso_updates > 0
    /\ best.p.pos # best_old.p.pos
    /\ \E i \in DOMAIN particles :
        /\ pso_old[i].vel # 0
        /\ particles[i].vel # pso_old[i].vel
        /\ particles[i].vel # 0
        /\ particles[i].best.pos # pso_old[i].best.pos

\* C10: under an order consistent with evaluation, the evaluation of
\* best() is at least every personal best and every current evaluation.
C10_BestDominates ==
    (pso_status = "ok" /\ ord = "eval") =>
        \A i \in DOMAIN particles :
            /\ best.e >= particles[i].best.e
            /\ best.e >= eval_func(particles[i].pos)

\* C10 witness: after an update() a candidate sits below its personal
\* best, and the cached global best is above every current evaluation.
C10_Witness ==
    /\ pso_updates > 0 /\ ord = "eval"
    /\ \E i \in DOMAIN particles :
        eval_func(particles[i].pos) < particles[i].best.e
    /\ best.e > MaxEval(particles)

====
